---- MODULE Spec2Model ----
(***************************************************************************)
(* The OAuth2 credential lifecycle of the `tail` Spotify client            *)
(* (src/src/main.rs): config_load, the interactive authorization branch    *)
(* of main (get_tokens), get_playback with its recursive refresh           *)
(* (refresh_tokens), and config_save.                                      *)
(*                                                                         *)
(* One step of the model is the code that runs between two blocking        *)
(* inputs of the process: the start of the process (arguments and the      *)
(* configuration file), the line read from stdin, and each HTTP response.  *)
(* The clock (SystemTime::now) is the variable now; Tick advances it       *)
(* between steps.                                                          *)
(***************************************************************************)
EXTENDS Integers, Sequences, FiniteSets, TLC

----------------------------------------------------------------------------
(* Bounds of the model *)

\* the clock runs over 0..MaxTime
MaxTime == 2
\* the server declares lifetimes (expires_in) in 0..MaxExpiresIn
MaxExpiresIn == 1
\* invocations of refresh_tokens explored within one run of the process
MaxRefresh == 3
\* runs of the process explored one after the other on the same store
MaxRuns == 2

----------------------------------------------------------------------------
(* Values *)

AccessTokens == {"", "AT1", "AT2"}
RefreshTokens == {"", "RT1", "RT2"}
Modes == {"DEFAULT", "SETUP", "PLAYBACK"}

\* impl Default for Config
DefaultConfig ==
    [client_id |-> "", client_secret |-> "", redirect_uri |-> "",
     access_token |-> "", refresh_token |-> "", expires_at |-> 0]

\* struct Config: the default record, or a record of a registered application
Configs ==
    {DefaultConfig} \cup
    [client_id : {"cid"}, client_secret : {"sec"}, redirect_uri : {"uri"},
     access_token : AccessTokens, refresh_token : RefreshTokens,
     expires_at : 0..MaxTime]

\* "no value": a field a response does not carry, a response not yet received
Absent == "<absent>"

\* What the token endpoint may answer to the authorization-code grant.
\*   ok       : 2xx, body carries access_token, expires_in, refresh_token
\*   ok_bad   : 2xx, body does not decode as TokenResponse
\*   err      : status >= 400, body carries error and error_description
\*   err_bad  : status >= 400, body does not decode as ResponseError
\*   transport: no response
ExchangeResponses ==
    [kind : {"ok"}, access_token : AccessTokens, refresh_token : RefreshTokens,
     expires_in : 0..MaxExpiresIn]
    \cup
    [kind : {"ok_bad", "err", "err_bad", "transport"}, access_token : {""},
     refresh_token : {""}, expires_in : {0}]

\* What the token endpoint may answer to the refresh grant; on ok the body
\* may or may not carry a refresh_token of its own.
RefreshResponses ==
    [kind : {"ok"}, access_token : AccessTokens,
     refresh_token : {Absent, "RT1", "RT2"}, expires_in : 0..MaxExpiresIn]
    \cup
    [kind : {"ok_bad", "err", "err_bad", "transport"}, access_token : {""},
     refresh_token : {Absent}, expires_in : {0}]

\* What the resource endpoint may answer: a status with a body, or nothing.
\* body: "playing" and "paused" decode as PlaybackState (is_playing true and
\* false), "error" as ResponseError, "garbage" as neither.
FetchResponses ==
    [status : {200, 204, 401, 500},
     body : {"playing", "paused", "error", "garbage"}]
    \cup
    [status : {0}, body : {"none"}]

\* What read_line may append to the buffer, as sequences of characters: a
\* line up to its newline, or what was read before the end of the input or
\* before the read failed.
InputLines ==
    {<<>>, <<"\n">>, <<" ", "\n">>, <<"A", "\n">>, <<" ", "A", " ", "\n">>,
     <<" ">>, <<"A">>}

NoResponse == [kind |-> Absent]

----------------------------------------------------------------------------
VARIABLES
    store,        \* the persisted configuration file
    cfg,          \* main's cfg, the Config in memory
    mode,         \* main's mode
    pc,           \* where the process is blocked
    now,          \* the clock, seconds since the epoch
    current_time, \* get_playback's last reading of the clock
    auth_code,    \* the trimmed line main read
    outcome,      \* how the run ended
    runs,         \* runs of the process so far
    \* history of the current run
    loaded,       \* the Config as config_load returned it
    storeAtStart, \* the store when the run started
    loadTime,     \* the clock when the run started
    branch,       \* "none", "auth" (line 228) or "playback" (line 261)
    exchangeReqs, \* authorization-code requests sent
    refreshCalls, \* invocations of refresh_tokens
    refreshReqs,  \* refresh requests sent
    fetchReqs,    \* resource requests sent
    fetchToken,   \* the bearer token of the last resource request
    saveCalls,    \* invocations of config_save
    saveArg,      \* the Config handed to the last config_save
    lastExchange, \* the last answer to the authorization-code grant
    issueTime,    \* the clock when that answer was applied
    lastRefresh,  \* the last answer to the refresh grant
    preRefresh,   \* cfg when that answer arrived
    refreshTime,  \* the clock when that answer arrived
    returned,     \* what get_tokens or get_playback returned to main
    fetchStatus   \* the status of the last answer of the resource endpoint

vars == <<store, cfg, mode, pc, now, current_time, auth_code, outcome, runs,
          loaded, storeAtStart, loadTime, branch, exchangeReqs, refreshCalls,
          refreshReqs, fetchReqs, fetchToken, saveCalls, saveArg, lastExchange,
          issueTime, lastRefresh, preRefresh, refreshTime, returned,
          fetchStatus>>

hist == <<loaded, storeAtStart, loadTime, branch, exchangeReqs, refreshCalls,
          refreshReqs, fetchReqs, fetchToken, saveCalls, saveArg, lastExchange,
          issueTime, lastRefresh, preRefresh, refreshTime, returned,
          fetchStatus>>

----------------------------------------------------------------------------
(* The pure parts of the code *)

Whitespace == {" ", "\n", "\t"}

RECURSIVE trim_start(_)
trim_start(s) ==
    IF s # <<>> /\ Head(s) \in Whitespace THEN trim_start(Tail(s)) ELSE s

RECURSIVE trim_end(_)
trim_end(s) ==
    IF s # <<>> /\ s[Len(s)] \in Whitespace
    THEN trim_end(SubSeq(s, 1, Len(s) - 1))
    ELSE s

\* str::trim, as main applies it to the line read
trim(s) == trim_end(trim_start(s))

\* main, lines 230-234: auth_code after the match on read_line. On Ok the
\* buffer is trimmed; on Err it is left as read_line left it, and read_line
\* keeps in the buffer the valid UTF-8 bytes it read before the error.
read_code(line, readOk) == IF readOk THEN trim(line) ELSE line

\* needs_authorization with the test of refresh_token left out
needs_authorization_access_only(m, c) ==
    m = "SETUP" \/ c.access_token = ""

\* needs_authorization with the test of the mode left out
needs_authorization_tokens_only(m, c) ==
    c.access_token = "" \/ c.refresh_token = ""

\* main, line 228: the run goes to interactive authorization
needs_authorization(m, c) ==
    m = "SETUP" \/ (c.access_token = "" \/ c.refresh_token = "")

\* not_expired with <= for <
not_expired_inclusive(c, t) == t <= c.expires_at

\* not_expired with a second of margin before the expiry
not_expired_margin(c, t) == t + 1 < c.expires_at

\* get_playback, line 194: current_time < expiry_time
not_expired(c, t) == t < c.expires_at

\* refresh_guard with the test of expires_at left out
refresh_guard_tokens_only(c) ==
    c.access_token # "" /\ c.refresh_token # ""

\* refresh_tokens, line 155: the credential has been authorized
refresh_guard(c) ==
    c.access_token # "" /\ c.refresh_token # "" /\ c.expires_at # 0

\* get_tokens falling back to an empty TokenResponse when a 2xx body does
\* not decode
get_tokens_default_body(resp) ==
    IF resp.kind \in {"ok", "ok_bad"}
    THEN [ok |-> TRUE, err |-> "none", access_token |-> resp.access_token,
          refresh_token |-> resp.refresh_token, expires_in |-> resp.expires_in]
    ELSE [ok |-> FALSE, err |-> "unknown", access_token |-> "",
          refresh_token |-> "", expires_in |-> 0]

\* get_tokens giving "Unknown Error" for every body that does not decode
get_tokens_unknown_on_bad_body(resp) ==
    CASE resp.kind = "ok" ->
           [ok |-> TRUE, err |-> "none", access_token |-> resp.access_token,
            refresh_token |-> resp.refresh_token,
            expires_in |-> resp.expires_in]
      [] resp.kind = "err" ->
           [ok |-> FALSE, err |-> "authorization", access_token |-> "",
            refresh_token |-> "", expires_in |-> 0]
      [] OTHER ->
           [ok |-> FALSE, err |-> "unknown", access_token |-> "",
            refresh_token |-> "", expires_in |-> 0]

\* get_tokens once the answer is there: Ok(TokenResponse) or Err(String)
get_tokens(resp) ==
    CASE resp.kind = "ok" ->
           [ok |-> TRUE, err |-> "none", access_token |-> resp.access_token,
            refresh_token |-> resp.refresh_token,
            expires_in |-> resp.expires_in]
      [] resp.kind = "ok_bad" ->
           [ok |-> FALSE, err |-> "parse", access_token |-> "",
            refresh_token |-> "", expires_in |-> 0]
      [] resp.kind = "err" ->
           [ok |-> FALSE, err |-> "authorization", access_token |-> "",
            refresh_token |-> "", expires_in |-> 0]
      [] resp.kind = "err_bad" ->
           [ok |-> FALSE, err |-> "parse", access_token |-> "",
            refresh_token |-> "", expires_in |-> 0]
      [] OTHER ->
           [ok |-> FALSE, err |-> "unknown", access_token |-> "",
            refresh_token |-> "", expires_in |-> 0]

\* apply_tokens storing the lifetime instead of the instant of expiry
apply_tokens_lifetime(c, data, t) ==
    [c EXCEPT !.access_token = data.access_token,
              !.refresh_token = data.refresh_token,
              !.expires_at = data.expires_in]

\* apply_tokens building the credential anew instead of assigning to cfg
apply_tokens_fresh(c, data, t) ==
    [DefaultConfig EXCEPT !.access_token = data.access_token,
                          !.refresh_token = data.refresh_token,
                          !.expires_at = t + data.expires_in]

\* main, lines 240-244: the token data applied to cfg at time t
apply_tokens(c, data, t) ==
    [c EXCEPT !.access_token = data.access_token,
              !.refresh_token = data.refresh_token,
              !.expires_at = t + data.expires_in]

\* refresh_tokens past its guard, once the answer is there, at time t:
\* RefreshTokenResponse holds access_token and expires_in only, so a
\* refresh_token of the body is dropped by the decoding.
refresh_tokens(c, resp, t) ==
    CASE resp.kind = "ok" ->
           [ok |-> TRUE, err |-> "none",
            config |-> [c EXCEPT !.access_token = resp.access_token,
                                 !.expires_at = t + resp.expires_in]]
      [] resp.kind = "ok_bad" -> [ok |-> FALSE, err |-> "parse", config |-> c]
      [] resp.kind = "err" ->
           [ok |-> FALSE, err |-> "authorization", config |-> c]
      [] resp.kind = "err_bad" -> [ok |-> FALSE, err |-> "parse", config |-> c]
      [] OTHER -> [ok |-> FALSE, err |-> "unknown", config |-> c]

\* fetch_result taking every status other than 200 as "nothing playing"
fetch_result_lenient(resp) ==
    CASE resp.status = 0 -> "err_unknown"
      [] resp.status = 200 ->
           IF resp.body \in {"playing", "paused"}
           THEN IF resp.body = "playing" THEN "some_playing" ELSE "some_paused"
           ELSE "err_parse"
      [] OTHER -> "none"

\* get_playback, lines 199-214: the answer of the resource endpoint as
\* Ok(Some), Ok(None) or Err
fetch_result(resp) ==
    CASE resp.status = 0 -> "err_unknown"
      [] resp.status = 200 ->
           IF resp.body \in {"playing", "paused"}
           THEN IF resp.body = "playing" THEN "some_playing" ELSE "some_paused"
           ELSE "err_parse"
      [] resp.status < 400 -> "none"
      [] OTHER -> IF resp.body = "error" THEN "err_authorization" ELSE "err_parse"

\* main, lines 273-298: what the run prints for a playback result
report(m, result) ==
    CASE result = "some_playing" ->
           IF m = "DEFAULT" THEN "track"
           ELSE IF m = "PLAYBACK" THEN "json" ELSE "no_music"
      [] result = "some_paused" -> IF m = "PLAYBACK" THEN "json" ELSE "no_music"
      [] result = "none" -> "no_music"
      [] OTHER -> "error"

\* config_save returning Ok without writing
config_save_dropped(c, ok, st) == st

\* config_save: the store after the call; a failed save leaves it as it was
config_save(c, ok, st) == IF ok THEN c ELSE st

----------------------------------------------------------------------------
(* The steps of the process *)

Init ==
    /\ store \in Configs
    /\ cfg = DefaultConfig
    /\ mode = "DEFAULT"
    /\ pc = "start"
    /\ now = 0
    /\ current_time = 0
    /\ auth_code = <<>>
    /\ outcome = "none"
    /\ runs = 0
    /\ loaded = DefaultConfig
    /\ storeAtStart = store
    /\ loadTime = 0
    /\ branch = "none"
    /\ exchangeReqs = 0
    /\ refreshCalls = 0
    /\ refreshReqs = 0
    /\ fetchReqs = 0
    /\ fetchToken = Absent
    /\ saveCalls = 0
    /\ saveArg = DefaultConfig
    /\ lastExchange = NoResponse
    /\ issueTime = 0
    /\ lastRefresh = NoResponse
    /\ preRefresh = DefaultConfig
    /\ refreshTime = 0
    /\ returned = "pending"
    /\ fetchStatus = -1

\* SystemTime::now moves on while the process is blocked
Tick ==
    /\ now < MaxTime
    /\ now' = now + 1
    /\ UNCHANGED <<store, cfg, mode, pc, current_time, auth_code, outcome,
                   runs, hist>>

\* main, lines 263-298: config_save(None, cfg), then the report of `result`;
\* a failed save panics before anything is reported
EndPlayback(m, c, result, saveOk) ==
    /\ saveCalls' = saveCalls + 1
    /\ saveArg' = c
    /\ store' = config_save(c, saveOk, store)
    /\ outcome' = IF saveOk THEN report(m, result) ELSE "save_panic"
    /\ returned' = result
    /\ pc' = "done"

\* get_playback entered with config c, up to the request it sends or the
\* error it returns (lines 192-197, 210-212 and refresh_tokens 155-167)
GetPlayback(m, c, saveOk) ==
    /\ current_time' = now
    /\ cfg' = c
    /\ IF not_expired(c, now)
       THEN /\ fetchReqs' = fetchReqs + 1
            /\ fetchToken' = c.access_token
            /\ pc' = "fetch_wait"
            /\ UNCHANGED <<refreshCalls, refreshReqs, store, saveCalls,
                           saveArg, outcome, returned>>
       ELSE /\ refreshCalls < MaxRefresh
            /\ refreshCalls' = refreshCalls + 1
            /\ UNCHANGED <<fetchReqs, fetchToken>>
            /\ IF refresh_guard(c)
               THEN /\ refreshReqs' = refreshReqs + 1
                    /\ pc' = "refresh_wait"
                    /\ UNCHANGED <<store, saveCalls, saveArg, outcome,
                                   returned>>
               ELSE /\ UNCHANGED refreshReqs
                    /\ EndPlayback(m, c, "err_unknown", saveOk)

\* main, lines 217-229 and 261-262: the process reads its arguments and the
\* configuration, and takes the authorization or the playback branch
Main(m, loadOk, saveOk) ==
    /\ pc = "start"
    /\ runs' = runs + 1
    /\ mode' = m
    /\ storeAtStart' = store
    /\ loadTime' = now
    /\ UNCHANGED <<now, auth_code, exchangeReqs, lastExchange, issueTime,
                   lastRefresh, preRefresh, refreshTime, fetchStatus>>
    /\ IF ~loadOk
       THEN /\ outcome' = "load_error"
            /\ pc' = "done"
            /\ UNCHANGED <<cfg, loaded, branch, store, current_time,
                           refreshCalls, refreshReqs, fetchReqs, fetchToken,
                           saveCalls, saveArg, returned>>
       ELSE /\ loaded' = store
            /\ IF needs_authorization(m, store)
               THEN /\ branch' = "auth"
                    /\ cfg' = store
                    /\ pc' = "prompt"
                    /\ UNCHANGED <<store, outcome, current_time, refreshCalls,
                                   refreshReqs, fetchReqs, fetchToken,
                                   saveCalls, saveArg, returned>>
               ELSE /\ branch' = "playback"
                    /\ GetPlayback(m, store, saveOk)

\* main, lines 230-238, and get_tokens, lines 127-139: the line is read and
\* trimmed; an empty code panics, any other is sent to the token endpoint.
\* A read fails only before a newline has been read.
ReadCode(line, readOk) ==
    /\ pc = "prompt"
    /\ readOk \/ \A i \in 1..Len(line) : line[i] # "\n"
    /\ auth_code' = read_code(line, readOk)
    /\ IF auth_code' = <<>>
       THEN /\ outcome' = "input_panic"
            /\ pc' = "done"
            /\ UNCHANGED exchangeReqs
       ELSE /\ exchangeReqs' = exchangeReqs + 1
            /\ pc' = "exchange_wait"
            /\ UNCHANGED outcome
    /\ UNCHANGED <<store, cfg, mode, now, current_time, runs, loaded,
                   storeAtStart, loadTime, branch, refreshCalls, refreshReqs,
                   fetchReqs, fetchToken, saveCalls, saveArg, lastExchange,
                   issueTime, lastRefresh, preRefresh, refreshTime, returned,
                   fetchStatus>>

\* ExchangeResponse going on to get_playback with the new tokens instead of
\* saving and ending
ExchangeResponse_then_playback(resp, saveOk) ==
    /\ pc = "exchange_wait"
    /\ lastExchange' = resp
    /\ issueTime' = now
    /\ LET r == get_tokens(resp) IN
       IF r.ok
       THEN GetPlayback(mode, apply_tokens(cfg, r, now), saveOk)
       ELSE /\ outcome' = "auth_panic"
            /\ returned' = "err_" \o r.err
            /\ pc' = "done"
            /\ UNCHANGED <<cfg, saveCalls, saveArg, store, current_time,
                           refreshCalls, refreshReqs, fetchReqs, fetchToken>>
    /\ UNCHANGED <<mode, now, auth_code, runs, loaded, storeAtStart, loadTime,
                   branch, exchangeReqs, lastRefresh, preRefresh, refreshTime,
                   fetchStatus>>

\* get_tokens, lines 140-151, and main, lines 238-260: the answer to the
\* authorization-code grant; on Ok the tokens are applied and the
\* configuration is saved, on Err the process panics
ExchangeResponse(resp, saveOk) ==
    /\ pc = "exchange_wait"
    /\ lastExchange' = resp
    /\ issueTime' = now
    /\ pc' = "done"
    /\ LET r == get_tokens(resp) IN
       /\ returned' = IF r.ok THEN "ok" ELSE "err_" \o r.err
       /\ IF r.ok
          THEN /\ cfg' = apply_tokens(cfg, r, now)
               /\ saveCalls' = saveCalls + 1
               /\ saveArg' = cfg'
               /\ store' = config_save(cfg', saveOk, store)
               /\ outcome' = IF saveOk THEN "saved" ELSE "save_panic"
          ELSE /\ outcome' = "auth_panic"
               /\ UNCHANGED <<cfg, saveCalls, saveArg, store>>
    /\ UNCHANGED <<mode, now, current_time, auth_code, runs, loaded,
                   storeAtStart, loadTime, branch, exchangeReqs, refreshCalls,
                   refreshReqs, fetchReqs, fetchToken, lastRefresh, preRefresh,
                   refreshTime, fetchStatus>>

\* refresh_tokens, lines 168-185, and get_playback, lines 211-212: the answer
\* to the refresh grant; on Ok get_playback calls itself with the refreshed
\* config, on Err the error goes back to main
RefreshResponse(resp, saveOk) ==
    /\ pc = "refresh_wait"
    /\ lastRefresh' = resp
    /\ preRefresh' = cfg
    /\ refreshTime' = now
    /\ LET r == refresh_tokens(cfg, resp, now) IN
       IF r.ok
       THEN GetPlayback(mode, r.config, saveOk)
       ELSE /\ cfg' = r.config
            /\ EndPlayback(mode, r.config, "err_" \o r.err, saveOk)
            /\ UNCHANGED <<current_time, refreshCalls, refreshReqs, fetchReqs,
                           fetchToken>>
    /\ UNCHANGED <<mode, now, auth_code, runs, loaded, storeAtStart, loadTime,
                   branch, exchangeReqs, lastExchange, issueTime, fetchStatus>>

\* FetchResponse refreshing the tokens and trying again when the resource
\* endpoint answers 401
FetchResponse_refresh_on_401(resp, saveOk) ==
    /\ pc = "fetch_wait"
    /\ fetchStatus' = resp.status
    /\ IF resp.status = 401 /\ refreshCalls < MaxRefresh
       THEN /\ refreshCalls' = refreshCalls + 1
            /\ refreshReqs' = refreshReqs + 1
            /\ pc' = "refresh_wait"
            /\ UNCHANGED <<store, saveCalls, saveArg, outcome, returned>>
       ELSE /\ EndPlayback(mode, cfg, fetch_result(resp), saveOk)
            /\ UNCHANGED <<refreshCalls, refreshReqs>>
    /\ UNCHANGED <<cfg, mode, now, current_time, auth_code, runs, loaded,
                   storeAtStart, loadTime, branch, exchangeReqs, fetchReqs,
                   fetchToken, lastExchange, issueTime, lastRefresh,
                   preRefresh, refreshTime>>

\* get_playback, lines 198-214, and main, lines 263-298: the answer of the
\* resource endpoint
FetchResponse(resp, saveOk) ==
    /\ pc = "fetch_wait"
    /\ fetchStatus' = resp.status
    /\ EndPlayback(mode, cfg, fetch_result(resp), saveOk)
    /\ UNCHANGED <<cfg, mode, now, current_time, auth_code, runs, loaded,
                   storeAtStart, loadTime, branch, exchangeReqs, refreshCalls,
                   refreshReqs, fetchReqs, fetchToken, lastExchange, issueTime,
                   lastRefresh, preRefresh, refreshTime>>

\* the process has ended and is run again on the store it left
Relaunch ==
    /\ pc = "done"
    /\ runs < MaxRuns
    /\ pc' = "start"
    /\ cfg' = DefaultConfig
    /\ mode' = "DEFAULT"
    /\ current_time' = 0
    /\ auth_code' = <<>>
    /\ outcome' = "none"
    /\ loaded' = DefaultConfig
    /\ storeAtStart' = store
    /\ loadTime' = 0
    /\ branch' = "none"
    /\ exchangeReqs' = 0
    /\ refreshCalls' = 0
    /\ refreshReqs' = 0
    /\ fetchReqs' = 0
    /\ fetchToken' = Absent
    /\ saveCalls' = 0
    /\ saveArg' = DefaultConfig
    /\ lastExchange' = NoResponse
    /\ issueTime' = 0
    /\ lastRefresh' = NoResponse
    /\ preRefresh' = DefaultConfig
    /\ refreshTime' = 0
    /\ returned' = "pending"
    /\ fetchStatus' = -1
    /\ UNCHANGED <<store, now, runs>>

Next ==
    \/ Tick
    \/ \E m \in Modes, loadOk \in BOOLEAN, saveOk \in BOOLEAN :
           Main(m, loadOk, saveOk)
    \/ \E line \in InputLines, readOk \in BOOLEAN : ReadCode(line, readOk)
    \/ \E resp \in ExchangeResponses, saveOk \in BOOLEAN :
           ExchangeResponse(resp, saveOk)
    \/ \E resp \in RefreshResponses, saveOk \in BOOLEAN :
           RefreshResponse(resp, saveOk)
    \/ \E resp \in FetchResponses, saveOk \in BOOLEAN :
           FetchResponse(resp, saveOk)
    \/ Relaunch

Spec == Init /\ [][Next]_vars

----------------------------------------------------------------------------
(* Properties *)

\* a refresh grant was answered with something other than new tokens
RefreshFailed == lastRefresh.kind \notin {Absent, "ok"}

\* an authorization-code grant was answered with something other than tokens
ExchangeFailed == lastExchange.kind \notin {Absent, "ok"}

\* C1: a resource request is sent only when get_playback read a clock value
\* below expires_at of the config it holds, with that config's access_token
\* as bearer; once refresh_tokens has returned an error (a failed request, or
\* its guard), the run has sent no resource request.
C1_FetchOnlyWhenValid ==
    /\ fetchReqs > 0 =>
           /\ current_time < cfg.expires_at
           /\ fetchToken = cfg.access_token
    /\ RefreshFailed => fetchReqs = 0 /\ pc = "done"
    /\ refreshCalls > refreshReqs => fetchReqs = 0 /\ pc = "done"

\* C1 witness: a resource request sent after one refresh
C1_Witness ==
    /\ pc = "fetch_wait"
    /\ refreshReqs = 1
    /\ fetchReqs = 1
    /\ fetchToken = lastRefresh.access_token

\* C2: a run sends at most one refresh request (and enters refresh_tokens at
\* most once).
C2_AtMostOneRefresh == refreshReqs <= 1 /\ refreshCalls <= 1

\* C3: when the loaded credential is expired (now >= expires_at) and has a
\* refresh_token, refresh_tokens has been invoked exactly once by the time a
\* resource request is sent.
C3_RefreshExactlyOnceBeforeFetch ==
    (/\ branch # "none"
     /\ loadTime >= loaded.expires_at
     /\ loaded.refresh_token # ""
     /\ fetchReqs > 0) => refreshCalls = 1

\* C4: a loaded credential with an empty refresh_token takes the run to
\* interactive authorization; refresh_tokens is not invoked and no refresh
\* request is sent.
C4_NoRefreshTokenRoutesToAuthorization ==
    (branch # "none" /\ loaded.refresh_token = "") =>
        /\ branch = "auth"
        /\ refreshCalls = 0
        /\ refreshReqs = 0

\* C4 witness: a run not in setup mode, whose credential has an access_token
\* and no refresh_token, has read the authorization code
C4_Witness ==
    /\ branch = "auth"
    /\ mode # "SETUP"
    /\ loaded.refresh_token = ""
    /\ loaded.access_token # ""
    /\ pc = "exchange_wait"

\* C5: after a successful refresh the refresh_token is the one of the
\* response when the response carries one, and the prior one otherwise.
C5_RefreshTokenRotation ==
    lastRefresh.kind = "ok" =>
        cfg.refresh_token =
            IF lastRefresh.refresh_token = Absent
            THEN preRefresh.refresh_token
            ELSE lastRefresh.refresh_token

\* the loaded credential was still valid when the run entered get_playback
ValidAtLoad == branch = "playback" /\ loadTime < loaded.expires_at

\* C6 as stated: a run that fetches with a still-valid access token changes
\* no field of the credential and calls no config_save.
C6_NoMutationNoSave ==
    ValidAtLoad => cfg = loaded /\ saveCalls = 0

\* C6 amended: a run that fetches with a still-valid access token invokes no
\* refresh and changes no field of the credential; the one config_save that
\* follows the fetch is handed a credential equal to the loaded one, so the
\* store holds what it held when the run started.
C6_NoMutationSaveUnchanged ==
    ValidAtLoad =>
        /\ refreshCalls = 0
        /\ cfg = loaded
        /\ saveCalls <= 1
        /\ saveCalls = 1 => saveArg = loaded
        /\ store = storeAtStart
        /\ store = loaded

\* C6 witness: such a run has fetched and saved
C6_Witness ==
    /\ ValidAtLoad
    /\ pc = "done"
    /\ fetchReqs = 1
    /\ saveCalls = 1
    /\ outcome \in {"track", "json", "no_music", "error"}

\* C7: once an exchange or a refresh has succeeded, access_token and
\* refresh_token of the credential are both empty or both non-empty.
C7_TokensBothOrNeither ==
    (lastExchange.kind = "ok" \/ lastRefresh.kind = "ok") =>
        ((cfg.access_token = "") <=> (cfg.refresh_token = ""))

\* C8: a failed exchange ends the run: no config_save, no refresh, no
\* resource request, and the store holds what it held when the run started.
C8_ExchangeFailureIsTerminal ==
    ExchangeFailed =>
        /\ pc = "done"
        /\ outcome = "auth_panic"
        /\ saveCalls = 0
        /\ refreshCalls = 0
        /\ refreshReqs = 0
        /\ fetchReqs = 0
        /\ store = storeAtStart
        /\ cfg = loaded

\* C8 witness: a 2xx answer whose body does not decode ended a run that began
\* with a credential in the store
C8_Witness ==
    /\ lastExchange.kind = "ok_bad"
    /\ pc = "done"
    /\ loaded.access_token # ""

\* C9: after an exchange answered {access_token A, refresh_token R,
\* expires_in E} at time now, config_save has been called once, with the
\* loaded credential changed to access_token A, refresh_token R and
\* expires_at now + E; that is the credential in memory, and the one in the
\* store when the save succeeded.
C9_ExchangeResultSaved ==
    lastExchange.kind = "ok" =>
        LET expected ==
                [loaded EXCEPT !.access_token = lastExchange.access_token,
                               !.refresh_token = lastExchange.refresh_token,
                               !.expires_at =
                                   issueTime + lastExchange.expires_in]
        IN  /\ saveCalls = 1
            /\ saveArg = expected
            /\ cfg = expected
            /\ outcome = "saved" => store = expected
            /\ outcome \in {"saved", "save_panic"}

\* C9 witness: an exchange from the empty store, answered after the clock
\* has moved, has been saved
C9_Witness ==
    /\ lastExchange.kind = "ok"
    /\ loaded = DefaultConfig
    /\ issueTime > 0
    /\ lastExchange.expires_in > 0
    /\ lastExchange.access_token = "AT1"
    /\ lastExchange.refresh_token = "RT1"
    /\ outcome = "saved"

\* C10: after a failed refresh the credential in memory, and the one handed
\* to config_save, equal the one loaded.
C10_FailedRefreshKeepsLoaded ==
    RefreshFailed =>
        /\ cfg = preRefresh
        /\ cfg = loaded
        /\ saveCalls > 0 => saveArg = loaded

\* the resource endpoint has answered (0: no response at all)
FetchAnswered == fetchStatus # -1

\* C11 as stated: every answer with a status other than 200 gives the
\* "no playback" result.
C11_Non200IsNoPlayback ==
    (FetchAnswered /\ fetchStatus \notin {0, 200}) => returned = "none"

\* C11 amended: a status other than 200 and below 400 (204) gives "no
\* playback"; a status of 400 or more gives an error, the server's when the
\* body decodes as {error, error_description} and a decoding error
\* otherwise; 200 gives the playback state or a decoding error; no response
\* gives the unknown error.
C11_FetchClassification ==
    FetchAnswered =>
        /\ fetchStatus = 0 => returned = "err_unknown"
        /\ fetchStatus = 200 =>
               returned \in {"some_playing", "some_paused", "err_parse"}
        /\ (fetchStatus \notin {0, 200} /\ fetchStatus < 400) =>
               returned = "none"
        /\ fetchStatus >= 400 =>
               returned \in {"err_authorization", "err_parse"}

\* C11 witness: a 401 with an error body came back as an error
C11_Witness ==
    /\ fetchStatus = 401
    /\ returned = "err_authorization"
    /\ outcome = "error"

\* the credential is not fully authorized
NotAuthorized(c) ==
    c.access_token = "" \/ c.refresh_token = "" \/ c.expires_at = 0

\* refresh_tokens was last entered with the credential now in memory, and
\* that credential is not fully authorized
RefreshOnNotAuthorized ==
    /\ branch = "playback"
    /\ refreshCalls > 0
    /\ fetchReqs = 0
    /\ NotAuthorized(cfg)

\* C12 as stated: refresh_tokens on a credential that is not fully authorized
\* returns a "not authorized" condition.
C12_NotAuthorizedCondition ==
    RefreshOnNotAuthorized => returned = "err_not_authorized"

\* C12 amended: refresh_tokens on a credential that is not fully authorized
\* returns at once the generic "Unknown Error" (the error a transport failure
\* gives too), sends no request, and leaves the credential as it was on
\* entry.
C12_GuardFailsWithoutRequest ==
    RefreshOnNotAuthorized =>
        /\ pc = "done"
        /\ returned = "err_unknown"
        /\ refreshReqs = refreshCalls - 1
        /\ lastRefresh.kind \in {Absent, "ok"}
        /\ saveArg = cfg
        /\ cfg = IF refreshCalls = 1
                 THEN loaded
                 ELSE [preRefresh EXCEPT
                          !.access_token = lastRefresh.access_token,
                          !.expires_at = refreshTime + lastRefresh.expires_in]

\* C12 witness: a refresh answered with an empty access_token and a zero
\* lifetime took get_playback back into refresh_tokens, which returned at
\* its guard
C12_Witness ==
    /\ RefreshOnNotAuthorized
    /\ refreshCalls = 2
    /\ refreshReqs = 1
    /\ cfg.access_token = ""
    /\ pc = "done"

\* the credential in memory differs from the one loaded, or an exchange or
\* the last refresh succeeded
Mutated ==
    \/ cfg # loaded
    \/ lastExchange.kind = "ok"
    \/ lastRefresh.kind = "ok"

C14_EventOrder ==
    [][pc' # "start" =>
         /\ (exchangeReqs' + refreshReqs' + fetchReqs' >
                 exchangeReqs + refreshReqs + fetchReqs) =>
                (branch' # "none" /\ loaded' = storeAtStart')
         /\ fetchReqs > 0 =>
                /\ exchangeReqs' = exchangeReqs
                /\ refreshReqs' = refreshReqs
                /\ refreshCalls' = refreshCalls
                /\ fetchReqs' = fetchReqs
         /\ saveCalls > 0 =>
                /\ exchangeReqs' = exchangeReqs
                /\ refreshReqs' = refreshReqs
                /\ fetchReqs' = fetchReqs
                /\ saveCalls' = saveCalls
         /\ saveCalls' > saveCalls => pc' = "done"]_vars

\* C14 witness: a run that loaded, refreshed, fetched and saved
C14_Witness ==
    /\ pc = "done"
    /\ branch = "playback"
    /\ refreshReqs = 1
    /\ fetchReqs = 1
    /\ fetchStatus = 200
    /\ saveCalls = 1

\* C15: a run that read an empty code (nothing but whitespace in the buffer,
\* from a line read or from a read that failed) panics on the input: it has
\* sent no authorization-code request and called no config_save, and the
\* store is as it was; a request is sent only with a code that holds a
\* character other than whitespace.
C15_EmptyCodeIsInputError ==
    /\ (branch = "auth" /\ pc # "prompt" /\ auth_code = <<>>) =>
           outcome = "input_panic"
    /\ outcome = "input_panic" =>
           /\ pc = "done"
           /\ auth_code = <<>>
           /\ exchangeReqs = 0
           /\ lastExchange = NoResponse
           /\ saveCalls = 0
           /\ store = storeAtStart
    /\ exchangeReqs > 0 =>
           \E i \in 1..Len(auth_code) : auth_code[i] \notin Whitespace

\* client_id, client_secret and redirect_uri of a credential
Registration(c) == <<c.client_id, c.client_secret, c.redirect_uri>>

\* C16: no step of any run changes client_id, client_secret or redirect_uri
\* of the store, and every credential handed to config_save carries the
\* three values of the credential loaded.
C16_RegistrationNeverChanges ==
    [][/\ Registration(store') = Registration(store)
       /\ saveCalls' > saveCalls =>
              Registration(saveArg') = Registration(storeAtStart')]_vars

\* C16 witness: the second run has saved new tokens over those the first run
\* saved, for a registered application
C16_Witness ==
    /\ runs = 2
    /\ pc = "done"
    /\ saveCalls = 1
    /\ store.client_id = "cid"
    /\ store # storeAtStart
    /\ storeAtStart.access_token = "AT1"
    /\ store.access_token = "AT2"

\* C17 as stated: get_tokens returns the authorization error for a failure
\* with an error body, and the generic unknown error both for a failure
\* whose body does not decode and for no response.
C17_UndecodableIsUnknown ==
    /\ lastExchange.kind = "err" => returned = "err_authorization"
    /\ lastExchange.kind \in {"err_bad", "transport"} =>
           returned = "err_unknown"

\* C17 amended: get_tokens returns a result to main for every answer: the
\* tokens for a 2xx whose body decodes, the authorization error for a
\* failure with an error body, the decoder's error for a body that does not
\* decode (on a 2xx or on a failure), and the generic unknown error only
\* when there is no response.
C17_ExchangeClassification ==
    lastExchange.kind # Absent =>
        returned = CASE lastExchange.kind = "ok" -> "ok"
                     [] lastExchange.kind = "ok_bad" -> "err_parse"
                     [] lastExchange.kind = "err" -> "err_authorization"
                     [] lastExchange.kind = "err_bad" -> "err_parse"
                     [] OTHER -> "err_unknown"

\* C17 witness: a failure whose body does not decode reached main as the
\* decoder's error
C17_Witness ==
    /\ lastExchange.kind = "err_bad"
    /\ returned = "err_parse"
    /\ outcome = "auth_panic"

\* C18: a run that took the authorization branch enters refresh_tokens
\* never and sends neither a refresh request nor a resource request; when
\* its exchange succeeded, config_save has been called and the run is over.
C18_AuthorizationBranchNeverFetches ==
    branch = "auth" =>
        /\ refreshCalls = 0
        /\ refreshReqs = 0
        /\ fetchReqs = 0
        /\ fetchStatus = -1
        /\ lastExchange.kind = "ok" =>
               /\ pc = "done"
               /\ saveCalls = 1
               /\ outcome \in {"saved", "save_panic"}

\* C18 witness: a run not in setup mode saved tokens that are still valid
\* and ended
C18_Witness ==
    /\ branch = "auth"
    /\ mode = "DEFAULT"
    /\ outcome = "saved"
    /\ store.access_token # ""
    /\ store.refresh_token # ""
    /\ now < store.expires_at

\* C19: a run in setup mode that loaded its configuration takes the
\* authorization branch whatever the credential, and never refreshes or
\* fetches; when its exchange succeeded, access_token, refresh_token and
\* expires_at are those of the exchange, in memory and, when the save
\* succeeded, in the store.
C19_SetupAlwaysAuthorizes ==
    (mode = "SETUP" /\ pc # "start" /\ outcome # "load_error") =>
        /\ branch = "auth"
        /\ refreshCalls = 0
        /\ fetchReqs = 0
        /\ lastExchange.kind = "ok" =>
               /\ cfg.access_token = lastExchange.access_token
               /\ cfg.refresh_token = lastExchange.refresh_token
               /\ cfg.expires_at = issueTime + lastExchange.expires_in
               /\ saveArg = cfg
               /\ outcome = "saved" => store = cfg

\* C19 witness: a setup run on a credential that was authorized and still
\* valid has replaced all three fields in the store
C19_Witness ==
    /\ mode = "SETUP"
    /\ loaded.access_token = "AT1"
    /\ loaded.refresh_token = "RT1"
    /\ loadTime < loaded.expires_at
    /\ outcome = "saved"
    /\ store.access_token = "AT2"
    /\ store.refresh_token = "RT2"
    /\ store.expires_at # loaded.expires_at

\* the loaded credential has both tokens and the expires_at of a credential
\* never issued, and the run is not in setup mode
SentinelLoaded ==
    /\ branch # "none"
    /\ mode # "SETUP"
    /\ loaded.access_token # ""
    /\ loaded.refresh_token # ""
    /\ loaded.expires_at = 0

\* C20: such a run takes the playback branch, not the authorization branch;
\* it sends no request of any kind, get_playback returns an error, and
\* config_save is called with the credential as loaded, so the store is as
\* it was.
C20_SentinelExpiryIsError ==
    SentinelLoaded =>
        /\ branch = "playback"
        /\ pc = "done"
        /\ exchangeReqs = 0
        /\ refreshReqs = 0
        /\ fetchReqs = 0
        /\ refreshCalls = 1
        /\ returned = "err_unknown"
        /\ outcome \in {"error", "save_panic"}
        /\ saveCalls = 1
        /\ saveArg = loaded
        /\ cfg = loaded
        /\ store = storeAtStart

\* C20 witness: such a run has reported the error after a save that
\* succeeded, with the clock past 0
C20_Witness ==
    /\ SentinelLoaded
    /\ loadTime > 0
    /\ outcome = "error"
    /\ store = loaded

====
